---- MODULE Spec2Model ----
(***************************************************************************)
(* Resumable multipart upload engine of Bytestore                          *)
(* (backend/services/upload_service.py, backend/background.py).            *)
(*                                                                         *)
(* The relational store is the three relations File, Upload, UploadPart.   *)
(* Request handlers run concurrently.  A handler that writes is cut in two *)
(* steps: the read of the File and the checks on it, then the gateway call *)
(* with the commit that follows it.  Between the two steps of one handler  *)
(* the other handlers may run.                                             *)
(***************************************************************************)
EXTENDS Integers, Sequences, FiniteSets, TLC

\* ------------------------------------------------------------------ bounds
MaxRows  == 4          \* rows the store may hold, over its three relations
MaxNow   == 24         \* the clock stops here (hours)
MaxSessions == 3       \* multipart sessions ever opened at the storage
MaxChunks == 20        \* declared sizes go up to this many whole chunks

\* ------------------------------------------------------- program constants
PART_SIZE == 5242880                  \* base.py: 5 * 1024 * 1024
STALE_AFTER_HOURS == 12               \* background.py

Users        == {"u1", "u2"}
Etags        == {"a", "b"}
Reaper       == 0
Clients      == {1, 2}
Procs        == Clients \cup {Reaper}

\* The initiate requests clients send: owner, fingerprint, declared size.
InitiateRequests ==
    { [user_id |-> "u1", fingerprint |-> "f1", size |-> PART_SIZE + 1,
       folder_id |-> ""],
      [user_id |-> "u2", fingerprint |-> "f1", size |-> PART_SIZE + 1,
       folder_id |-> ""],
      [user_id |-> "u1", fingerprint |-> "f2", size |-> PART_SIZE,
       folder_id |-> ""] }

\* The folders table; folders are made and removed elsewhere.
Folders == { [id |-> "d1", user_id |-> "u1"], [id |-> "d2", user_id |-> "u2"] }

\* Initiate requests that name a folder: the caller's own, another
\* user's, and one that does not exist.
FolderRequests ==
    { [user_id |-> "u1", fingerprint |-> "f2", size |-> PART_SIZE,
       folder_id |-> d] : d \in {"d1", "d2", "d9"} }

\* Initiate requests over a range of declared sizes: whole chunks, one
\* byte more, one byte less.  The schema accepts any integer.
SizeRequests ==
    { [user_id |-> "u1", fingerprint |-> "f1", size |-> k * PART_SIZE + r,
       folder_id |-> ""] : k \in 0..MaxChunks, r \in {0, 1, PART_SIZE - 1} }

Fingerprints == { r.fingerprint : r \in InitiateRequests }

\* A part count that rounds down.
total_parts_of_floor(size) == size \div PART_SIZE

\* math.ceil(size / self.PART_SIZE)
total_parts_of(size) == (size + PART_SIZE - 1) \div PART_SIZE

\* The part numbers clients offer: 0, which is below every range, up to the
\* largest part count, which is above the range of the smaller uploads.
MaxPart     == total_parts_of(PART_SIZE + 1)
PartNumbers == 0..MaxPart

VARIABLES
    files,      \* sequence of File rows; a File's id is its index
    uploads,    \* sequence of Upload rows; Upload i belongs to File i
    parts,      \* set of UploadPart rows [upload_id, part_number, etag,
                \* uploaded_at]
    sessions,   \* object storage: multipart session id -> its state
    now,        \* the clock, in hours
    pc,         \* where each handler (and the reaper) stands
    loc,        \* the handler's local variables
    stale,      \* the reaper's stale_files still to visit in this cycle
    resp,       \* what the last step returned to its caller (with the
                \* etag an acknowledgePart call carried)
    gwCall,     \* the gateway call the last step made
    lastInit,   \* per fingerprint, what the latest initiate returned
    raced       \* fingerprints for which two first-time initiates overlapped

vars == <<files, uploads, parts, sessions, now, pc, loc, stale, resp, gwCall,
          lastInit, raced>>
db   == <<files, uploads, parts>>

\* ----------------------------------------------------------- row helpers
NoLoc == [op |-> "", user_id |-> "", file_id |-> 0, fingerprint |-> "",
          size |-> 0, part_number |-> 0, row_seen |-> FALSE, folder_id |-> "",
          owned |-> FALSE]

NoResp ==
    [proc |-> -1, op |-> "", kind |-> "none", err |-> "", user_id |-> "",
     file_id |-> 0, part_number |-> 0, fingerprint |-> "", path |-> "",
     upload_id |-> 0, total_parts |-> 0, uploaded_parts |-> {}, count |-> 0,
     row_seen |-> FALSE, body |-> "", etag |-> ""]

NoCall == [op |-> "", key |-> 0, upload_id |-> 0, part_number |-> 0,
           given |-> <<>>, parts |-> <<>>, ok |-> FALSE, raised |-> ""]

\* How a call on the storage client ends: it returns, it raises ClientError
\* (the service answered with an error), or it raises another botocore
\* exception (the service was not reached).
GatewayOutcomes == {"returns", "ClientError", "BotoCoreError"}

\* The exception a call raises, given how it ends and whether the
\* multipart session it names is open.
Raised(outcome, open) ==
    IF outcome = "BotoCoreError" THEN "BotoCoreError"
    ELSE IF outcome = "ClientError" \/ ~open THEN "ClientError"
    ELSE ""

\* Rows in the store, and rows the handlers in flight are about to add: a
\* File comes with its Upload, a part is one row.
StoreRows ==
    Len(files) + Len(uploads) + Cardinality(parts)
    + 2 * Cardinality({ q \in Procs : pc[q] = "init_create" })
    + Cardinality({ q \in Procs : pc[q] = "ack_commit" })

\* The File ids clients ask about: those the store can come to hold.
FileIds == 1..(MaxRows \div 2)
Quiet   == resp = NoResp /\ gwCall = NoCall

\* A request is served by the lowest free handler slot.
Free(p) == pc[p] = "idle" /\ \A q \in Clients : q < p => pc[q] # "idle"

\* A loop without its try: whatever the abort does, the sweep is over.
Home_idle(p) == "idle"

\* The place a finished abort returns to: a client's request ends, the
\* reaper goes on with its loop over stale_files.
Home(p) == IF p = Reaper THEN "reap" ELSE "idle"

\* What a step hands back: the call it answers and its outcome.
Ok(p, op, l)  == [NoResp EXCEPT !.proc = p, !.op = op, !.kind = "ok",
                                !.user_id = l.user_id, !.file_id = l.file_id,
                                !.part_number = l.part_number,
                                !.fingerprint = l.fingerprint,
                                !.row_seen = l.row_seen]
Err(p, op, l, e) == [Ok(p, op, l) EXCEPT !.kind = "err", !.err = e]
\* An error raised before the part number is looked at.
ErrEarly(p, op, l, e) == [Err(p, op, l, e) EXCEPT !.part_number = 0]

\* A lookup by id alone.
get_file_by_id_anyuser(file_id, user_id) ==
    IF file_id \in DOMAIN files THEN {file_id} ELSE {}

\* FileService.get_file_by_id: the File with this id owned by this user.
get_file_by_id(file_id, user_id) ==
    IF file_id \in DOMAIN files /\ files[file_id].user_id = user_id
    THEN {file_id} ELSE {}

\* A lookup that forgets the fingerprint filter.
get_upload_by_fingerprint_anyfp(fingerprint) ==
    { u \in DOMAIN uploads :
        /\ uploads[u].status = "INPROGRESS"
        /\ uploads[u].file_id \in DOMAIN files }

\* A lookup that filters on the wrong status.
get_upload_by_fingerprint_completed(fingerprint) ==
    { u \in DOMAIN uploads :
        /\ uploads[u].file_fingerprint = fingerprint
        /\ uploads[u].status = "COMPLETED"
        /\ uploads[u].file_id \in DOMAIN files }

\* UploadService._get_upload_by_fingerprint: the rows .first() picks from.
get_upload_by_fingerprint(fingerprint) ==
    { u \in DOMAIN uploads :
        /\ uploads[u].file_fingerprint = fingerprint
        /\ uploads[u].status = "INPROGRESS"
        /\ uploads[u].file_id \in DOMAIN files }

\* FolderService.get_folder_by_id: the folder with this id owned by this user.
get_folder_by_id(folder_id, user_id) ==
    { d \in Folders : d.id = folder_id /\ d.user_id = user_id }

\* files.folder_id REFERENCES folders.id: an INSERT that names a folder
\* that is not there is refused.
ForeignKeyError(folder_id) ==
    folder_id # "" /\ \A d \in Folders : d.id # folder_id

\* upload.parts
PartsOf(u) == { r \in parts : r.upload_id = u }

\* ------------------------------------------------------------------- Init
Init ==
    /\ files = <<>>
    /\ uploads = <<>>
    /\ parts = {}
    /\ sessions = <<>>
    /\ now = 0
    /\ pc = [p \in Procs |-> "idle"]
    /\ loc = [p \in Procs |-> NoLoc]
    /\ stale = {}
    /\ resp = NoResp
    /\ gwCall = NoCall
    /\ lastInit = [f \in Fingerprints |-> <<0, 0>>]
    /\ raced = {}

\* ---------------------------------------------- initiate_multipart_upload
\* A resume that answers like a first-time initiate: no parts.
ResumeResult_noparts(p, req, u) ==
    [Ok(p, "initiate", NoLoc) EXCEPT
       !.user_id = req.user_id,
       !.fingerprint = req.fingerprint,
       !.path = "resume",
       !.file_id = uploads[u].file_id,
       !.upload_id = uploads[u].upload_id,
       !.total_parts = uploads[u].total_parts]

\* Lines 66-75: the dict the resume path returns.
ResumeResult(p, req, u) ==
    [Ok(p, "initiate", NoLoc) EXCEPT
       !.user_id = req.user_id,
       !.fingerprint = req.fingerprint,
       !.path = "resume",
       !.file_id = uploads[u].file_id,
       !.upload_id = uploads[u].upload_id,
       !.total_parts = uploads[u].total_parts,
       !.uploaded_parts = { <<r.part_number, r.etag>> : r \in PartsOf(u) }]

\* A resume that opens a multipart session before it looks at the Upload.
InitiateResume_opens(p, req, u) ==
    /\ resp' = ResumeResult(p, req, u)
    /\ gwCall' = [NoCall EXCEPT !.op = "create", !.ok = TRUE,
                                !.key = Len(sessions) + 1,
                                !.upload_id = Len(sessions) + 1]
    /\ sessions' = Append(sessions,
                          [key |-> Len(sessions) + 1, state |-> "open"])
    /\ lastInit' = [lastInit EXCEPT ![req.fingerprint] =
                      <<uploads[u].file_id, uploads[u].upload_id>>]
    /\ UNCHANGED <<files, uploads, parts, now, pc, loc, stale, raced>>

\* Lines 63-75: the resume path. Returns the existing Upload's File id,
\* session id, total parts and upload.parts; writes nothing.
InitiateResume(p, req, u) ==
    /\ resp' = ResumeResult(p, req, u)
    /\ gwCall' = NoCall
    /\ lastInit' = [lastInit EXCEPT ![req.fingerprint] =
                      <<uploads[u].file_id, uploads[u].upload_id>>]
    /\ UNCHANGED <<files, uploads, parts, sessions, now, pc, loc, stale, raced>>

\* Line 76 on: no resumable Upload was found; the handler goes on to create
\* one.  Two first-time initiates of one fingerprint that overlap are noted.
InitiateFresh(p, req) ==
    /\ StoreRows + 2 <= MaxRows
    /\ Len(sessions) + Cardinality({ q \in Procs : pc[q] = "init_create" })
         < MaxSessions
    /\ pc' = [pc EXCEPT ![p] = "init_create"]
    /\ loc' = [loc EXCEPT ![p] =
                 [NoLoc EXCEPT !.op = "initiate",
                               !.user_id = req.user_id,
                               !.fingerprint = req.fingerprint,
                               !.size = req.size,
                               !.folder_id = req.folder_id]]
    /\ raced' = IF \E q \in Procs \ {p} :
                     pc[q] = "init_create" /\ loc[q].fingerprint = req.fingerprint
                THEN raced \cup {req.fingerprint} ELSE raced
    /\ resp' = NoResp
    /\ gwCall' = NoCall
    /\ UNCHANGED <<files, uploads, parts, sessions, now, stale, lastInit>>

\* Lines 61-63: the lookup by fingerprint decides between the two paths.
InitiateLookupOf(p, req) ==
    LET found == get_upload_by_fingerprint(req.fingerprint) IN
    IF found # {}
    THEN \E u \in found : InitiateResume(p, req, u)
    ELSE InitiateFresh(p, req)

\* routers/upload.py initiate_multipart_upload: a request without folder_id.
InitiateLookup(p) ==
    /\ Quiet
    /\ p \in Clients
    /\ Free(p)
    /\ \E req \in InitiateRequests : InitiateLookupOf(p, req)

\* The same route, for a request that names a folder.
InitiateInFolder(p) ==
    /\ Quiet
    /\ p \in Clients
    /\ Free(p)
    /\ \E req \in FolderRequests : InitiateLookupOf(p, req)

\* The same route, for requests over the range of declared sizes.
InitiateSized(p) ==
    /\ Quiet
    /\ p \in Clients
    /\ Free(p)
    /\ \E req \in SizeRequests : InitiateLookupOf(p, req)

\* Lines 95-116: the File and its Upload, added and committed together.
\* BaseService._generate_storage_key, lines 40-46: the folder part of the
\* key.  The folder's path is used when the caller owns the folder; in every
\* other case the key is the one of a file without folder.
storage_key_folder(user_id, folder_id) ==
    IF folder_id # "" /\ get_folder_by_id(folder_id, user_id) # {}
    THEN folder_id ELSE ""

\* A key made of owner, folder and filename alone, without the uuid.
NewFile_nouuid(l, key) ==
    [user_id |-> l.user_id, size |-> l.size, storage_key |-> 0,
     storage_key_folder |-> storage_key_folder(l.user_id, l.folder_id),
     folder_id |-> l.folder_id, status |-> "INITIATED", updated_at |-> now]

NewFile(l, key) ==
    [user_id |-> l.user_id, size |-> l.size, storage_key |-> key,
     storage_key_folder |-> storage_key_folder(l.user_id, l.folder_id),
     folder_id |-> l.folder_id, status |-> "INITIATED", updated_at |-> now]

NewUpload(l, file_id, sid) ==
    [file_id |-> file_id, upload_id |-> sid,
     file_fingerprint |-> l.fingerprint, chunk_size |-> PART_SIZE,
     total_parts |-> total_parts_of(l.size), status |-> "INPROGRESS"]

\* A handler that adds the File before it opens the session.
CreateFailed_keepsFile(p, raised) ==
    /\ resp' = [Err(p, "initiate", loc[p], "StorageError") EXCEPT
                  !.path = "create"]
    /\ files' = Append(files, NewFile(loc[p], 0))
    /\ uploads' = Append(uploads, [NewUpload(loc[p], Len(files) + 1, 0)
                                     EXCEPT !.status = "ABORTED"])

\* Lines 92-93 and 126-130: create_multipart_upload raised; the handler
\* raises FileUploadException and no row was added.
CreateFailed(p, raised) ==
    /\ resp' = [Err(p, "initiate", loc[p],
                    IF raised = "ClientError" THEN "StorageError" ELSE "Error")
                  EXCEPT !.path = "create"]
    /\ UNCHANGED <<files, uploads>>

\* Lines 77-130: the storage key (a fresh uuid), create_multipart_upload, and
\* on its success the commit of File and Upload; a ClientError (line 92) or
\* any other exception (line 128) ends the request before anything is
\* written.
InitiateCreate(p) ==
    /\ Quiet
    /\ pc[p] = "init_create"
    /\ LET key == Len(sessions) + 1
           sid == Len(sessions) + 1
           id  == Len(files) + 1 IN
       \/ /\ sessions' = Append(sessions, [key |-> key, state |-> "open"])
          /\ gwCall' = [NoCall EXCEPT !.op = "create", !.ok = TRUE,
                                      !.key = key, !.upload_id = sid]
          /\ IF ForeignKeyError(loc[p].folder_id)
             THEN \* db.commit() raises; lines 128-130 roll back and raise
                  /\ resp' = [Err(p, "initiate", loc[p], "Error") EXCEPT
                                !.path = "create"]
                  /\ UNCHANGED <<files, uploads, lastInit>>
             ELSE /\ files' = Append(files, NewFile(loc[p], key))
                  /\ uploads' = Append(uploads, NewUpload(loc[p], id, sid))
                  /\ resp' = [Ok(p, "initiate", loc[p]) EXCEPT
                                !.path = "create",
                                !.file_id = id,
                                !.upload_id = sid,
                                !.total_parts = total_parts_of(loc[p].size)]
                  /\ lastInit' = [lastInit EXCEPT ![loc[p].fingerprint] =
                                    <<id, sid>>]
       \/ /\ \E raised \in GatewayOutcomes \ {"returns"} :
               /\ gwCall' = [NoCall EXCEPT !.op = "create", !.ok = FALSE,
                                           !.key = key, !.raised = raised]
               /\ CreateFailed(p, raised)
          /\ UNCHANGED <<sessions, lastInit>>
    /\ loc' = [loc EXCEPT ![p] = NoLoc]
    /\ pc' = [pc EXCEPT ![p] = "idle"]
    /\ UNCHANGED <<parts, now, stale, raced>>

\* -------------------------------------------- generate_presigned_url_for_part
\* A range check that looks at the upper end only.
InvalidPartNumber_upper(part_number, total_parts) == part_number > total_parts

\* Line 160: part_number < 1 or part_number > total_parts.
InvalidPartNumber(part_number, total_parts) ==
    part_number < 1 \/ part_number > total_parts

\* A handler that books the part as uploaded when it hands out the URL.
PresignPart_records(p) ==
    /\ Quiet
    /\ p \in Clients
    /\ Free(p)
    /\ \E file_id \in FileIds, user_id \in Users, part_number \in PartNumbers :
         LET l == [NoLoc EXCEPT !.user_id = user_id, !.file_id = file_id,
                                !.part_number = part_number] IN
         /\ get_file_by_id(file_id, user_id) # {}
         /\ files[file_id].status = "INITIATED"
         /\ ~InvalidPartNumber(part_number, uploads[file_id].total_parts)
         /\ gwCall' = [NoCall EXCEPT !.op = "presign", !.ok = TRUE,
                                     !.key = files[file_id].storage_key,
                                     !.upload_id = uploads[file_id].upload_id,
                                     !.part_number = part_number]
         /\ resp' = [Ok(p, "presign", l) EXCEPT !.body = "url"]
         /\ parts' = parts \cup {[upload_id |-> file_id,
                                  part_number |-> part_number, etag |-> "a",
                                  uploaded_at |-> now]}
    /\ UNCHANGED <<files, uploads, sessions, now, pc, loc, stale,
                   lastInit, raced>>

\* Lines 149-182, one step: the checks, then generate_presigned_url.
PresignPart(p) ==
    /\ Quiet
    /\ p \in Clients
    /\ Free(p)
    /\ \E file_id \in FileIds, user_id \in Users, part_number \in PartNumbers :
         LET l == [NoLoc EXCEPT !.user_id = user_id, !.file_id = file_id,
                                !.part_number = part_number]
             found == get_file_by_id(file_id, user_id) IN
         /\ IF found = {}
            THEN resp' = ErrEarly(p, "presign", l, "NotFound") /\ gwCall' = NoCall
            ELSE IF files[file_id].status # "INITIATED"
            THEN resp' = ErrEarly(p, "presign", l, "InvalidState") /\ gwCall' = NoCall
            ELSE IF InvalidPartNumber(part_number, uploads[file_id].total_parts)
            THEN resp' = Err(p, "presign", l, "InvalidArgument") /\ gwCall' = NoCall
            ELSE \E ok \in BOOLEAN :
                   /\ gwCall' = [NoCall EXCEPT
                                   !.op = "presign", !.ok = ok,
                                   !.raised = IF ok THEN "" ELSE "ClientError",
                                   !.key = files[file_id].storage_key,
                                   !.upload_id = uploads[file_id].upload_id,
                                   !.part_number = part_number]
                   /\ resp' = IF ok THEN [Ok(p, "presign", l) EXCEPT !.body = "url"]
                                    ELSE Err(p, "presign", l, "StorageError")
    /\ UNCHANGED <<files, uploads, parts, sessions, now, pc, loc, stale,
                   lastInit, raced>>

\* ------------------------------------------------------ mark_part_uploaded
\* A handler without the status check.
AckAccepts_any(file_id) == TRUE

\* Lines 203-209: what the status check lets through.
AckAccepts(file_id) ==
    /\ files[file_id].status = "INITIATED"
    /\ uploads[file_id].status = "INPROGRESS"

\* Lines 203-209: the File is read and the in-progress state is checked.
AckCheck(p) ==
    /\ Quiet
    /\ p \in Clients
    /\ Free(p)
    /\ \E file_id \in FileIds, user_id \in Users, part_number \in PartNumbers :
         LET l == [NoLoc EXCEPT !.op = "ack", !.user_id = user_id,
                                !.file_id = file_id,
                                !.part_number = part_number]
             found == get_file_by_id(file_id, user_id) IN
         IF found = {}
         THEN /\ resp' = ErrEarly(p, "ack", l, "NotFound")
              /\ UNCHANGED <<pc, loc>>
         ELSE IF ~AckAccepts(file_id)
         THEN /\ resp' = ErrEarly(p, "ack", l, "InvalidState")
              /\ UNCHANGED <<pc, loc>>
         ELSE /\ \/ StoreRows + 1 <= MaxRows
                 \/ \E r \in PartsOf(file_id) : r.part_number = part_number
              /\ resp' = NoResp
              /\ pc' = [pc EXCEPT ![p] = "ack_commit"]
              /\ loc' = [loc EXCEPT ![p] =
                           [l EXCEPT !.user_id = "",
                                     !.owned = files[file_id].user_id = user_id,
                                     !.row_seen =
                                        \E r \in PartsOf(file_id) :
                                            r.part_number = part_number]]
    /\ gwCall' = NoCall
    /\ UNCHANGED <<files, uploads, parts, sessions, now, stale, lastInit, raced>>

\* A table without the primary key: no INSERT is refused.
IntegrityError_never(rows, row) == FALSE

\* The primary key (upload_id, part_number) of upload_parts: an INSERT of a
\* key that is there raises IntegrityError.
IntegrityError(rows, row) ==
    \E r \in rows : r.upload_id = row.upload_id /\ r.part_number = row.part_number

\* Lines 220-229: the value returned after a committed INSERT.
AckResult(p, rows) ==
    [Ok(p, "ack", loc[p]) EXCEPT
       !.body = "dict",
       !.count = Cardinality({ r \in rows : r.upload_id = loc[p].file_id }),
       !.total_parts = uploads[loc[p].file_id].total_parts]

\* A handler that lets IntegrityError reach the general except clause.
AckDuplicate_raises(p) == Err(p, "ack", loc[p], "Error")

\* Lines 231-233: IntegrityError is rolled back and passed over; the
\* function falls off its end and returns None.
AckDuplicate(p) == [Ok(p, "ack", loc[p]) EXCEPT !.body = "null"]

\* A handler that writes the new etag over the stored one (session.merge).
AckCommit_upsert(p) ==
    /\ Quiet
    /\ pc[p] = "ack_commit"
    /\ \E etag \in Etags :
         LET row == [upload_id |-> loc[p].file_id,
                     part_number |-> loc[p].part_number,
                     etag |-> etag,
                     uploaded_at |-> now] IN
         /\ parts' = { r \in parts : ~(/\ r.upload_id = row.upload_id
                                       /\ r.part_number = row.part_number) }
                      \cup {row}
         /\ resp' = [AckResult(p, parts') EXCEPT !.etag = etag]
    /\ gwCall' = NoCall
    /\ loc' = [loc EXCEPT ![p] = NoLoc]
    /\ pc' = [pc EXCEPT ![p] = "idle"]
    /\ UNCHANGED <<files, uploads, sessions, now, stale, lastInit, raced>>

\* Lines 211-237: the INSERT and its commit.
AckCommit(p) ==
    /\ Quiet
    /\ pc[p] = "ack_commit"
    /\ \E etag \in Etags :
         LET row == [upload_id |-> loc[p].file_id,
                     part_number |-> loc[p].part_number,
                     etag |-> etag,
                     uploaded_at |-> now] IN
         IF IntegrityError(parts, row)
         THEN /\ parts' = parts
              /\ resp' = [AckDuplicate(p) EXCEPT !.etag = etag]
         ELSE /\ parts' = parts \cup {row}
              /\ resp' = [AckResult(p, parts \cup {row}) EXCEPT !.etag = etag]
    /\ gwCall' = NoCall
    /\ loc' = [loc EXCEPT ![p] = NoLoc]
    /\ pc' = [pc EXCEPT ![p] = "idle"]
    /\ UNCHANGED <<files, uploads, sessions, now, stale, lastInit, raced>>

\* ------------------------------------------------ complete_multipart_upload
\* The part lists clients pass to complete: empty, short, in order, out of
\* order, and with a part number twice.
Entry(n, e)   == [part_number |-> n, etag |-> e]
CompleteLists ==
    { <<>>,
      <<Entry(1, "a")>>,
      <<Entry(1, "a"), Entry(2, "b")>>,
      <<Entry(2, "b"), Entry(1, "a")>>,
      <<Entry(2, "a"), Entry(1, "b"), Entry(1, "a")>> }

\* sorted(parts, key=lambda x: x['part_number']): a stable insertion sort.
RECURSIVE InsertSorted(_, _)
InsertSorted(sorted, x) ==
    IF sorted = <<>> THEN <<x>>
    ELSE IF sorted[Len(sorted)].part_number <= x.part_number
         THEN Append(sorted, x)
         ELSE Append(InsertSorted(SubSeq(sorted, 1, Len(sorted) - 1), x),
                     sorted[Len(sorted)])

\* A handler that sends only the entries it finds among the stored rows.
Acknowledged(e) ==
    \E r \in parts : r.part_number = e.part_number /\ r.etag = e.etag
SortedParts_stored(list) == SelectSeq(list, Acknowledged)

\* A handler that passes the caller's list on as it came.
SortedParts_asgiven(list) == list

RECURSIVE SortedParts(_)
SortedParts(list) ==
    IF list = <<>> THEN <<>>
    ELSE InsertSorted(SortedParts(SubSeq(list, 1, Len(list) - 1)),
                      list[Len(list)])

\* Lines 256-265: the File is read and its status checked.
CompleteCheck(p) ==
    /\ Quiet
    /\ p \in Clients
    /\ Free(p)
    /\ \E file_id \in FileIds, user_id \in Users :
         LET l == [NoLoc EXCEPT !.op = "complete", !.user_id = user_id,
                                !.file_id = file_id]
             found == get_file_by_id(file_id, user_id) IN
         IF found = {}
         THEN /\ resp' = Err(p, "complete", l, "NotFound")
              /\ UNCHANGED <<pc, loc>>
         ELSE IF files[file_id].status # "INITIATED"
         THEN /\ resp' = Err(p, "complete", l, "InvalidState")
              /\ UNCHANGED <<pc, loc>>
         ELSE /\ resp' = NoResp
              /\ pc' = [pc EXCEPT ![p] = "complete_finish"]
              /\ loc' = [loc EXCEPT ![p] =
                           [l EXCEPT !.user_id = "",
                                     !.owned = files[file_id].user_id = user_id]]
    /\ gwCall' = NoCall
    /\ UNCHANGED <<files, uploads, parts, sessions, now, stale, lastInit, raced>>

\* A success path that forgets the Upload row.
CompleteSucceeded_fileonly(p) ==
    LET f == loc[p].file_id IN
    /\ files' = [files EXCEPT ![f].status = "COMPLETED", ![f].updated_at = now]
    /\ uploads' = uploads
    /\ resp' = [Ok(p, "complete", loc[p]) EXCEPT !.body = "file"]

\* Lines 283-288: COMPLETED/COMPLETED in one commit; the File is returned.
CompleteSucceeded(p) ==
    LET f == loc[p].file_id IN
    /\ files' = [files EXCEPT ![f].status = "COMPLETED", ![f].updated_at = now]
    /\ uploads' = [uploads EXCEPT ![f].status = "COMPLETED"]
    /\ resp' = [Ok(p, "complete", loc[p]) EXCEPT !.body = "file"]

\* A failure path that marks the File and forgets the Upload.
CompleteRejected_fileonly(p) ==
    LET f == loc[p].file_id IN
    /\ files' = [files EXCEPT ![f].status = "FAILED", ![f].updated_at = now]
    /\ uploads' = uploads
    /\ resp' = Err(p, "complete", loc[p], "StorageError")

\* Lines 290-294, except ClientError: FAILED/ABORTED in one commit, and the
\* error is raised.
CompleteRejected(p) ==
    LET f == loc[p].file_id IN
    /\ files' = [files EXCEPT ![f].status = "FAILED", ![f].updated_at = now]
    /\ uploads' = [uploads EXCEPT ![f].status = "ABORTED"]
    /\ resp' = Err(p, "complete", loc[p], "StorageError")

\* No except clause of the function catches another exception: it leaves
\* the function, nothing is committed, and the route answers 400
\* (routers/upload.py lines 132-136).
CompleteUncaught(p) ==
    /\ UNCHANGED <<files, uploads>>
    /\ resp' = Err(p, "complete", loc[p], "Error")

\* Lines 267-294: the sorted list goes to the gateway, which finalizes an
\* open session, rejects the call, or is not reached.
CompleteFinish(p) ==
    /\ Quiet
    /\ pc[p] = "complete_finish"
    /\ \E list \in CompleteLists, outcome \in GatewayOutcomes :
         LET f == loc[p].file_id
             sid == uploads[f].upload_id
             raised == Raised(outcome, sessions[sid].state = "open") IN
         /\ gwCall' = [NoCall EXCEPT !.op = "complete", !.ok = (raised = ""),
                                     !.raised = raised,
                                     !.key = files[f].storage_key,
                                     !.upload_id = sid,
                                     !.given = list,
                                     !.parts = SortedParts(list)]
         /\ sessions' = IF raised = ""
                        THEN [sessions EXCEPT ![sid].state = "completed"]
                        ELSE sessions
         /\ IF raised = "" THEN CompleteSucceeded(p)
            ELSE IF raised = "ClientError" THEN CompleteRejected(p)
            ELSE CompleteUncaught(p)
    /\ loc' = [loc EXCEPT ![p] = NoLoc]
    /\ pc' = [pc EXCEPT ![p] = "idle"]
    /\ UNCHANGED <<parts, now, stale, lastInit, raced>>

\* --------------------------------------------------- abort_multipart_upload
\* Lines 307-313, for the File and owner the caller names.
AbortCheckOf(p, file_id, user_id) ==
    LET l == [NoLoc EXCEPT !.op = "abort", !.user_id = user_id,
                           !.file_id = file_id]
        found == get_file_by_id(file_id, user_id) IN
    /\ IF found = {}
       THEN /\ resp' = Err(p, "abort", l, "NotFound")
            /\ pc' = [pc EXCEPT ![p] = Home(p)]
            /\ UNCHANGED loc
       ELSE IF files[file_id].status # "INITIATED"
       THEN /\ resp' = Err(p, "abort", l, "InvalidState")
            /\ pc' = [pc EXCEPT ![p] = Home(p)]
            /\ UNCHANGED loc
       ELSE /\ resp' = NoResp
            /\ pc' = [pc EXCEPT ![p] = "abort_finish"]
            /\ loc' = [loc EXCEPT ![p] =
                         [l EXCEPT !.user_id = "",
                                   !.owned = files[file_id].user_id = user_id]]
    /\ gwCall' = NoCall
    /\ UNCHANGED <<files, uploads, parts, sessions, now, lastInit, raced>>

\* routers/upload.py abort_multipart_upload: a client's abort request.
AbortCheck(p) ==
    /\ Quiet
    /\ p \in Clients
    /\ Free(p)
    /\ \E file_id \in FileIds, user_id \in Users : AbortCheckOf(p, file_id, user_id)
    /\ UNCHANGED stale

\* An abort that marks the Upload and leaves the File as it was.
AbortCommitted_uploadonly(p) ==
    LET f == loc[p].file_id IN
    /\ files' = files
    /\ uploads' = [uploads EXCEPT ![f].status = "ABORTED"]
    /\ resp' = [Ok(p, "abort", loc[p]) EXCEPT !.body = "true"]

\* Lines 326-330: FAILED/ABORTED in one commit, and True.
AbortCommitted(p) ==
    LET f == loc[p].file_id IN
    /\ files' = [files EXCEPT ![f].status = "FAILED", ![f].updated_at = now]
    /\ uploads' = [uploads EXCEPT ![f].status = "ABORTED"]
    /\ resp' = [Ok(p, "abort", loc[p]) EXCEPT !.body = "true"]

\* Lines 332-334, except Exception: rollback, and the error is raised.
AbortRaised(p) ==
    /\ UNCHANGED <<files, uploads>>
    /\ resp' = Err(p, "abort", loc[p], "Error")

\* Lines 315-334: the gateway abort.  Its ClientError is printed and
\* dropped (lines 323-324); another exception is not caught there and
\* reaches the outer except clause.
AbortFinish(p) ==
    /\ Quiet
    /\ pc[p] = "abort_finish"
    /\ \E outcome \in GatewayOutcomes :
         LET f == loc[p].file_id
             sid == uploads[f].upload_id
             raised == Raised(outcome, sessions[sid].state = "open") IN
         /\ gwCall' = [NoCall EXCEPT !.op = "abort", !.ok = (raised = ""),
                                     !.raised = raised,
                                     !.key = files[f].storage_key,
                                     !.upload_id = sid]
         /\ sessions' = IF raised = ""
                        THEN [sessions EXCEPT ![sid].state = "aborted"]
                        ELSE sessions
         /\ IF raised = "BotoCoreError" THEN AbortRaised(p)
                                        ELSE AbortCommitted(p)
    /\ loc' = [loc EXCEPT ![p] = NoLoc]
    /\ pc' = [pc EXCEPT ![p] = Home(p)]
    /\ UNCHANGED <<parts, now, stale, lastInit, raced>>

\* ---------------------------------------------------------- get_upload_status
\* file_service.py lines 605-614: the File is looked up by id and owner.  The
\* dict is then built from file_record.upload_id, file_record.total_parts
\* and file_record.get_uploaded_part_numbers(), none of which the File
\* model has (models/file.py lines 15-33): the first of them raises
\* AttributeError, and the route answers 400 (routers/file.py lines 387-391).
UploadStatus(p) ==
    /\ Quiet
    /\ p \in Clients
    /\ Free(p)
    /\ \E file_id \in FileIds, user_id \in Users :
         LET l == [NoLoc EXCEPT !.op = "status", !.user_id = user_id,
                                !.file_id = file_id] IN
         resp' = IF get_file_by_id(file_id, user_id) = {}
                 THEN Err(p, "status", l, "NotFound")
                 ELSE Err(p, "status", l, "Error")
    /\ gwCall' = NoCall
    /\ UNCHANGED <<files, uploads, parts, sessions, now, pc, loc, stale,
                   lastInit, raced>>

\* --------------------------------------------------------------- delete_file
\* file_service.py lines 164-189, behind DELETE /{file_id}: the File is
\* looked up by id and owner, whatever its status.  delete_object is called
\* on its key; a ClientError is printed and the handler goes on, any other
\* exception rolls back and is raised again.  Then File.status is set to
\* DELETED and committed.  The File's Upload is not read or written.
DeleteFile(p) ==
    /\ Quiet
    /\ p \in Clients
    /\ Free(p)
    /\ \E file_id \in FileIds, user_id \in Users :
         LET l == [NoLoc EXCEPT !.op = "delete", !.user_id = user_id,
                                !.file_id = file_id] IN
         IF get_file_by_id(file_id, user_id) = {}
         THEN /\ resp' = Err(p, "delete", l, "NotFound")
              /\ gwCall' = NoCall
              /\ files' = files
         ELSE \E outcome \in GatewayOutcomes :
                LET raised == Raised(outcome, TRUE) IN
                /\ gwCall' = [NoCall EXCEPT
                                !.op = "delete_object", !.ok = raised = "",
                                !.raised = raised,
                                !.key = files[file_id].storage_key]
                /\ IF raised = "BotoCoreError"
                   THEN /\ files' = files
                        /\ resp' = Err(p, "delete", l, "Error")
                   ELSE /\ files' = [files EXCEPT
                                       ![file_id].status = "DELETED",
                                       ![file_id].updated_at =
                                          IF files[file_id].status = "DELETED"
                                          THEN @ ELSE now]
                        /\ resp' = [Ok(p, "delete", l) EXCEPT !.body = "true"]
    /\ UNCHANGED <<uploads, parts, sessions, now, pc, loc, stale,
                   lastInit, raced>>

\* ------------------------------------------------------------ background.py
\* A query without the cutoff: every INITIATED File.
StaleFiles_all ==
    { f \in DOMAIN files : files[f].status = "INITIATED" }

\* clean_files lines 28-30: the INITIATED Files older than the cutoff.
StaleFiles ==
    { f \in DOMAIN files :
        /\ files[f].updated_at < now - STALE_AFTER_HOURS
        /\ files[f].status = "INITIATED" }

ReaperScan ==
    /\ Quiet
    /\ pc[Reaper] = "idle"
    /\ StaleFiles # {}
    /\ stale' = StaleFiles
    /\ pc' = [pc EXCEPT ![Reaper] = "reap"]
    /\ resp' = NoResp
    /\ gwCall' = NoCall
    /\ UNCHANGED <<files, uploads, parts, sessions, now, loc, lastInit, raced>>

\* Lines 34-39: abort the next stale File with its own owner; an exception
\* is printed and the loop goes on.
ReaperVisit ==
    /\ Quiet
    /\ pc[Reaper] = "reap"
    /\ \E f \in stale :
         /\ stale' = stale \ {f}
         /\ AbortCheckOf(Reaper, f, files[f].user_id)

\* cleanup_old_files: the cycle is over, the task sleeps.
ReaperSleep ==
    /\ Quiet
    /\ pc[Reaper] = "reap"
    /\ stale = {}
    /\ pc' = [pc EXCEPT ![Reaper] = "idle"]
    /\ resp' = NoResp
    /\ gwCall' = NoCall
    /\ UNCHANGED <<files, uploads, parts, sessions, now, loc, stale, lastInit, raced>>

\* Time passes, twelve hours at a time; no request lasts that long.
Tick ==
    /\ Quiet
    /\ \A p \in Procs : pc[p] = "idle"
    /\ now + STALE_AFTER_HOURS <= MaxNow
    /\ now' = now + STALE_AFTER_HOURS
    /\ resp' = NoResp
    /\ gwCall' = NoCall
    /\ UNCHANGED <<files, uploads, parts, sessions, pc, loc, stale, lastInit, raced>>

\* The response has gone to the caller; the next step starts.
Deliver ==
    /\ ~Quiet
    /\ resp' = NoResp
    /\ gwCall' = NoCall
    /\ UNCHANGED <<files, uploads, parts, sessions, now, pc, loc, stale,
                   lastInit, raced>>

\* The request handlers, served concurrently.
Next ==
    \/ \E p \in Clients : InitiateLookup(p)
    \/ \E p \in Clients : InitiateCreate(p)
    \/ \E p \in Clients : PresignPart(p)
    \/ \E p \in Clients : AckCheck(p)
    \/ \E p \in Clients : AckCommit(p)
    \/ \E p \in Clients : CompleteCheck(p)
    \/ \E p \in Clients : CompleteFinish(p)
    \/ \E p \in Clients : AbortCheck(p)
    \/ \E p \in Clients : AbortFinish(p)
    \/ Deliver

Spec == Init /\ [][Next]_vars

\* One handler slot: every request ends before the next one starts.
SeqNext ==
    \/ InitiateLookup(1)
    \/ InitiateCreate(1)
    \/ PresignPart(1)
    \/ AckCheck(1)
    \/ AckCommit(1)
    \/ CompleteCheck(1)
    \/ CompleteFinish(1)
    \/ AbortCheck(1)
    \/ AbortFinish(1)
    \/ Deliver

SeqSpec == Init /\ [][SeqNext]_vars

\* One handler slot, the clock and the reaper task beside it.
ReaperNext ==
    \/ SeqNext
    \/ AbortFinish(Reaper)
    \/ ReaperScan
    \/ ReaperVisit
    \/ ReaperSleep
    \/ Tick

ReaperSpec == Init /\ [][ReaperNext]_vars

\* The reaper beside uploads that are initiated and then left alone: no
\* request other than initiate comes in.
UntouchedNext ==
    \/ InitiateLookup(1)
    \/ InitiateCreate(1)
    \/ AbortFinish(Reaper)
    \/ ReaperScan
    \/ ReaperVisit
    \/ ReaperSleep
    \/ Tick
    \/ Deliver

\* cleanup_old_files, lines 12-22: the task loops for ever, a cycle and a
\* sleep; its steps, the clock and the step that ends an initiate that has
\* begun are taken in the end, however often a request comes in between.
\* Whether a client sends a request, and how a gateway call ends, is left
\* open.
ReaperFairness ==
    /\ SF_vars(ReaperScan)
    /\ SF_vars(ReaperVisit)
    /\ SF_vars(AbortFinish(Reaper))
    /\ SF_vars(ReaperSleep)
    /\ SF_vars(Tick)
    /\ SF_vars(InitiateCreate(1))
    /\ WF_vars(Deliver)

ReaperLiveSpec == Init /\ [][UntouchedNext]_vars /\ ReaperFairness

\* One handler slot, and initiate requests that name a folder.
FolderNext ==
    \/ SeqNext
    \/ InitiateInFolder(1)

FolderSpec == Init /\ [][FolderNext]_vars

\* One handler slot, and the upload-status route beside the upload routes.
StatusNext ==
    \/ SeqNext
    \/ UploadStatus(1)

StatusSpec == Init /\ [][StatusNext]_vars

\* One handler slot, and the delete route beside the upload routes.
DeleteNext ==
    \/ SeqNext
    \/ DeleteFile(1)

DeleteSpec == Init /\ [][DeleteNext]_vars

\* One handler slot that serves initiate requests of every declared size.
SizeNext ==
    \/ InitiateSized(1)
    \/ InitiateCreate(1)
    \/ Deliver

SizeSpec == Init /\ [][SizeNext]_vars

\* =================================================================== claims
\* The step in which initiate answers through its resume path.
ResumeStep == resp = NoResp /\ resp'.op = "initiate" /\ resp'.path = "resume"

UploadsWith(ups, f)    == { u \in DOMAIN ups : ups[u].file_fingerprint = f }
InProgressWith(ups, f) == { u \in UploadsWith(ups, f) : ups[u].status = "INPROGRESS" }
RowsOfKey(rows, u, n)  == { r \in rows : r.upload_id = u /\ r.part_number = n }
Terminal(f)            == files[f].status \in {"COMPLETED", "FAILED"}
AckEnds(p)             == pc[p] = "ack_commit" /\ pc'[p] = "idle"

\* C1, as stated: with requests served one after the other, an initiate that
\* finds an INPROGRESS Upload for its fingerprint returns the fileId and
\* sessionId the latest earlier initiate of that fingerprint returned, and
\* afterwards exactly one Upload row carries the fingerprint.
C1_ResumeLeavesOneRow ==
    [][ResumeStep =>
         /\ <<resp'.file_id, resp'.upload_id>> = lastInit[resp'.fingerprint]
         /\ Cardinality(UploadsWith(uploads', resp'.fingerprint)) = 1]_vars

\* C1, amended: with requests served one after the other, an initiate that
\* finds an INPROGRESS Upload for its fingerprint returns the fileId and
\* sessionId the latest earlier initiate of that fingerprint returned, adds
\* no Upload row, and afterwards exactly one INPROGRESS Upload row carries
\* the fingerprint (rows of aborted or failed sessions may carry it too).
C1_ResumeLeavesOneInProgress ==
    [][ResumeStep =>
         /\ <<resp'.file_id, resp'.upload_id>> = lastInit[resp'.fingerprint]
         /\ uploads' = uploads
         /\ Cardinality(InProgressWith(uploads', resp'.fingerprint)) = 1]_vars

\* C1 witness: a resume answered while an older, aborted Upload row of the
\* same fingerprint is in the store.
C1_Witness ==
    /\ resp.op = "initiate" /\ resp.path = "resume"
    /\ Cardinality(UploadsWith(uploads, resp.fingerprint)) = 2

\* C2, as stated: in every reachable state, concurrent initiates included,
\* at most one INPROGRESS Upload exists per fingerprint.
C2_OneInProgressPerFingerprint ==
    \A f \in Fingerprints : Cardinality(InProgressWith(uploads, f)) <= 1

\* C2, amended: at most one INPROGRESS Upload exists per fingerprint for
\* which no two first-time initiate calls have overlapped; every other
\* handler may run concurrently.
C2_OneInProgressUnlessRaced ==
    \A f \in Fingerprints \ raced : Cardinality(InProgressWith(uploads, f)) <= 1

\* C2 witness: a fingerprint never raced for, initiated again after its
\* first session ended, with a handler in flight.
C2_Witness ==
    \E f \in Fingerprints \ raced :
        /\ Cardinality(UploadsWith(uploads, f)) = 2
        /\ Cardinality(InProgressWith(uploads, f)) = 1
        /\ \E p \in Clients : pc[p] # "idle"

\* C3: the acknowledgedParts of a resume are exactly the (partNumber, etag)
\* pairs of the UploadPart rows stored for the Upload it returns.
C3_ResumeReturnsStoredParts ==
    [][ResumeStep =>
         \E u \in DOMAIN uploads :
             /\ uploads[u].file_id = resp'.file_id
             /\ uploads[u].upload_id = resp'.upload_id
             /\ resp'.uploaded_parts =
                  { <<r.part_number, r.etag>> : r \in { x \in parts : x.upload_id = u } }]_vars

\* C3 witness: a resume that returns two acknowledged parts.
C3_Witness ==
    /\ resp.op = "initiate" /\ resp.path = "resume"
    /\ Cardinality(resp.uploaded_parts) = 2

\* C4: a resume makes no gateway call, opens no session and leaves every
\* File, Upload and UploadPart row as it was.
C4_ResumeWritesNothing ==
    [][ResumeStep =>
         /\ gwCall' = NoCall
         /\ UNCHANGED <<files, uploads, parts, sessions>>]_vars

\* C4 witness: a resume answered for an Upload that has a part, while
\* another handler is in flight.
C4_Witness ==
    /\ resp.op = "initiate" /\ resp.path = "resume" /\ resp.kind = "ok"
    /\ resp.uploaded_parts # {}
    /\ \E p \in Clients : pc[p] # "idle"

\* C5: with requests served one after the other, every acknowledgePart on
\* an in-progress upload, for any part number and etag, the first as well as
\* a repeated one, is answered as a success, and after it exactly one
\* UploadPart row holds (Upload, partNumber).
C5_AckIdempotent ==
    [][/\ AckEnds(1) =>
            /\ resp'.kind = "ok"
            /\ Cardinality(RowsOfKey(parts', loc[1].file_id,
                                     loc[1].part_number)) = 1
       /\ (resp = NoResp /\ resp'.op = "ack" /\ resp'.kind = "err") =>
            ~ /\ resp'.file_id \in DOMAIN files
              /\ files[resp'.file_id].user_id = resp'.user_id
              /\ files[resp'.file_id].status = "INITIATED"
              /\ uploads[resp'.file_id].status = "INPROGRESS"]_vars

\* C5 witness: a part number acknowledged again, answered as a success.
C5_Witness ==
    /\ resp.op = "ack" /\ resp.kind = "ok"
    /\ resp.row_seen
    /\ Cardinality(RowsOfKey(parts, resp.file_id, resp.part_number)) = 1

\* C6, as stated: every accepted acknowledgePart, a repeated one included,
\* returns the number of distinct part numbers recorded and the Upload's
\* total part count.
C6_AckReturnsCounts ==
    [][(resp = NoResp /\ resp'.op = "ack" /\ resp'.kind = "ok") =>
         /\ resp'.body = "dict"
         /\ resp'.count =
              Cardinality({ r.part_number : r \in { x \in parts' :
                                                      x.upload_id = resp'.file_id } })
         /\ resp'.total_parts = uploads[resp'.file_id].total_parts]_vars

\* C7: whenever an acknowledgePart ends, also one that found no row at its
\* check and meets the row of a concurrent call at its INSERT, it ends in
\* success, exactly one row holds its (Upload, partNumber), and a refused
\* INSERT changes no row.
C7_ConcurrentAckSafe ==
    [][\A p \in Clients :
         AckEnds(p) =>
           LET before == RowsOfKey(parts, loc[p].file_id, loc[p].part_number)
               after  == RowsOfKey(parts', loc[p].file_id, loc[p].part_number)
           IN /\ resp'.proc = p /\ resp'.op = "ack" /\ resp'.kind = "ok"
              /\ Cardinality(after) = 1
              /\ before # {} => parts' = parts]_vars

\* C7 witness: the loser of a race: no row at its check, a row at its INSERT.
C7_Witness ==
    /\ resp.op = "ack" /\ resp.kind = "ok" /\ resp.body = "null"
    /\ ~resp.row_seen

\* C8, as stated: a complete or abort that comes to its gateway call and
\* commit when the File is no longer in progress fails with InvalidState
\* and leaves the File and Upload status alone, so that of two racing calls
\* at most one succeeds.
C8_RaceLoserFails ==
    [][\A p \in Clients :
         (pc[p] \in {"complete_finish", "abort_finish"} /\ pc'[p] = "idle"
          /\ Terminal(loc[p].file_id)) =>
           /\ resp'.kind = "err" /\ resp'.err = "InvalidState"
           /\ files'[loc[p].file_id].status = files[loc[p].file_id].status
           /\ uploads'[loc[p].file_id].status = uploads[loc[p].file_id].status]_vars

\* C9: a presignPart, acknowledgePart, complete or abort that the owner
\* starts on a File whose status is COMPLETED or FAILED fails with
\* InvalidState at once: no gateway call, no row changed, no handler left
\* in flight.
C9_TerminalGated ==
    [][\A f \in DOMAIN files :
         Terminal(f) =>
           /\ \A p \in Clients :
                (pc[p] = "idle" /\ pc'[p] # "idle") => loc'[p].file_id # f
           /\ (/\ resp = NoResp
               /\ resp'.op \in {"presign", "ack", "complete", "abort"}
               /\ resp'.file_id = f
               /\ resp'.user_id = files[f].user_id
               /\ pc[resp'.proc] = "idle") =>
                /\ resp'.kind = "err" /\ resp'.err = "InvalidState"
                /\ gwCall' = NoCall
                /\ UNCHANGED <<files, uploads, parts, sessions>>]_vars

\* C9 witness: the owner's abort of a COMPLETED File, refused.
C9_Witness ==
    /\ resp.op = "abort" /\ resp.kind = "err" /\ resp.err = "InvalidState"
    /\ files[resp.file_id].status = "COMPLETED"
    /\ files[resp.file_id].user_id = resp.user_id

\* C10, as stated: every stored UploadPart has a part number in
\* [1, Upload.total_parts], acknowledgePart refusing the others.
C10_PartNumbersInRange ==
    \A r \in parts :
        /\ r.part_number >= 1
        /\ r.part_number <= uploads[r.upload_id].total_parts

\* The step in which a handler that answers in one step answers.
Answers(op) == resp = NoResp /\ resp'.op = op /\ pc[resp'.proc] = "idle"

\* C11: presignPart by the owner of an in-progress upload fails with
\* InvalidArgument, and calls no gateway, for a part number below 1 or above
\* total_parts; for every part number in [1, total_parts] it asks the
\* gateway for a URL for that part and returns it when the gateway does.
C11_PresignBounds ==
    [][(/\ Answers("presign")
        /\ resp'.file_id \in DOMAIN files
        /\ files[resp'.file_id].user_id = resp'.user_id
        /\ files[resp'.file_id].status = "INITIATED") =>
          LET n == resp'.part_number
              t == uploads[resp'.file_id].total_parts IN
          IF n < 1 \/ n > t
          THEN /\ resp'.kind = "err" /\ resp'.err = "InvalidArgument"
               /\ gwCall' = NoCall
               /\ UNCHANGED <<files, uploads, parts, sessions>>
          ELSE /\ gwCall'.op = "presign" /\ gwCall'.part_number = n
               /\ gwCall'.upload_id = uploads[resp'.file_id].upload_id
               /\ gwCall'.ok => (resp'.kind = "ok" /\ resp'.body = "url")
               /\ ~gwCall'.ok => resp'.kind = "err"]_vars

\* C11 witness: part number 0 refused for an upload in progress.
C11_Witness ==
    /\ resp.op = "presign" /\ resp.err = "InvalidArgument"
    /\ resp.part_number = 0
    /\ files[resp.file_id].status = "INITIATED"

Occurrences(seq, e) == Cardinality({ i \in DOMAIN seq : seq[i] = e })
SameEntries(a, b) ==
    /\ Len(a) = Len(b)
    /\ \A i \in DOMAIN a : Occurrences(a, a[i]) = Occurrences(b, a[i])
Ascending(seq) ==
    \A i \in DOMAIN seq, j \in DOMAIN seq :
        i < j => seq[i].part_number <= seq[j].part_number

\* C12: the list handed to the gateway's complete call holds the entries
\* of the caller's list, each as often as the caller gave it, in ascending
\* order of part number, whatever the order the caller gave them in.
C12_GatewayGetsSortedParts ==
    [][(gwCall = NoCall /\ gwCall'.op = "complete") =>
         /\ SameEntries(gwCall'.given, gwCall'.parts)
         /\ Ascending(gwCall'.parts)]_vars

\* C12 witness: a list given out of order reached the gateway.
C12_Witness ==
    /\ gwCall.op = "complete"
    /\ Len(gwCall.given) >= 2
    /\ ~Ascending(gwCall.given)

\* The step in which a two-step handler of this kind ends.
Ends(p, at) == pc[p] = at /\ pc'[p] # at

\* C13: when a complete admitted on an in-progress File gets the gateway's
\* success, File and Upload both become COMPLETED in that one step and the
\* File is returned.
C13_CompleteSuccess ==
    [][\A p \in Clients :
         (Ends(p, "complete_finish") /\ gwCall'.ok) =>
           LET f == loc[p].file_id IN
           /\ files'[f].status = "COMPLETED"
           /\ uploads'[f].status = "COMPLETED"
           /\ resp'.proc = p /\ resp'.op = "complete" /\ resp'.file_id = f
           /\ resp'.kind = "ok" /\ resp'.body = "file"]_vars

\* C13 witness: a complete has returned the File, and both rows are
\* COMPLETED.
C13_Witness ==
    /\ resp.op = "complete" /\ resp.kind = "ok"
    /\ gwCall.op = "complete" /\ gwCall.ok
    /\ files[resp.file_id].status = "COMPLETED"
    /\ uploads[resp.file_id].status = "COMPLETED"

\* C14, as stated: whenever the gateway's complete call fails, in either
\* way, the File becomes FAILED and the Upload ABORTED in that step, and
\* the caller gets an error.
C14_CompleteFailureMarksFailed ==
    [][\A p \in Clients :
         (Ends(p, "complete_finish") /\ ~gwCall'.ok) =>
           LET f == loc[p].file_id IN
           /\ files'[f].status = "FAILED"
           /\ uploads'[f].status = "ABORTED"
           /\ resp'.kind = "err"]_vars

C16_AbortSwallowsGatewayFailure ==
    [][\A p \in Clients :
         (Ends(p, "abort_finish") /\ ~gwCall'.ok) =>
           LET f == loc[p].file_id IN
           /\ resp'.kind = "ok"
           /\ files'[f].status = "FAILED"
           /\ uploads'[f].status = "ABORTED"]_vars

\* C17: when create_multipart_upload fails in a first-time initiate, the
\* call ends with an error and no File, Upload or UploadPart row is added
\* or changed.
C17_InitiateFailureLeavesNoTrace ==
    [][\A p \in Clients :
         (Ends(p, "init_create") /\ ~gwCall'.ok) =>
           /\ resp'.proc = p /\ resp'.op = "initiate" /\ resp'.kind = "err"
           /\ UNCHANGED <<files, uploads, parts, sessions>>]_vars

\* C17 witness: a first-time initiate has failed at the gateway while the
\* store holds rows of another upload.
C17_Witness ==
    /\ resp.op = "initiate" /\ resp.kind = "err"
    /\ gwCall.op = "create" /\ ~gwCall.ok
    /\ Len(files) >= 1

\* C18, as stated: a first-time initiate that names a folder which does
\* not exist or belongs to another user fails with NotFound, calls no
\* gateway and adds no File or Upload row.
C18_ForeignFolderRefused ==
    [][\A p \in Clients :
         (/\ Ends(p, "init_create")
          /\ loc[p].folder_id # ""
          /\ get_folder_by_id(loc[p].folder_id, loc[p].user_id) = {}) =>
           /\ resp'.kind = "err" /\ resp'.err = "NotFound"
           /\ gwCall' = NoCall
           /\ UNCHANGED <<files, uploads, sessions>>]_vars

\* C19: presignPart, acknowledgePart, complete and abort, called for a
\* file id that no File has or by a user who does not own the File, fail
\* with NotFound, call no gateway and change no row; no such call gets
\* past the handler's first check.
C19_NotFoundForStrangers ==
    [][/\ \A op \in {"presign", "ack", "complete", "abort"} :
            (/\ Answers(op)
             /\ \/ resp'.file_id \notin DOMAIN files
                \/ files[resp'.file_id].user_id # resp'.user_id) =>
              /\ resp'.kind = "err" /\ resp'.err = "NotFound"
              /\ gwCall' = NoCall
              /\ UNCHANGED <<files, uploads, parts, sessions>>
       /\ \A p \in Clients :
            (pc[p] = "idle" /\ pc'[p] \notin {"idle", "init_create"}) =>
              /\ loc'[p].file_id \in DOMAIN files
              /\ loc'[p].owned]_vars

\* C19 witness: a complete by a user who does not own the File, refused.
C19_Witness ==
    /\ resp.op = "complete" /\ resp.err = "NotFound"
    /\ resp.file_id \in DOMAIN files
    /\ files[resp.file_id].user_id # resp.user_id

\* C20, as stated: the reaper's abort of a stale File, once through its
\* check, always ends with the File FAILED and the Upload ABORTED, so that
\* one cycle moves every stale File to its terminal state.
C20_ReaperCycleAbortsEveryStaleFile ==
    [][Ends(Reaper, "abort_finish") =>
         /\ files'[loc[Reaper].file_id].status = "FAILED"
         /\ uploads'[loc[Reaper].file_id].status = "ABORTED"
         /\ gwCall'.op = "abort"]_vars

\* A step of the reaper task.
ReaperStep == pc'[Reaper] # pc[Reaper]

\* C21: a reaper cycle selects exactly the Files that are INITIATED and
\* whose updated_at is more than 12 hours back; it goes into the abort of
\* selected Files only; its steps change no part row, change no File or
\* Upload other than the one under abort, and make no gateway call other
\* than the abort for that File's storage key.
C21_ReaperTouchesOnlyStale ==
    [][ReaperStep =>
         /\ (pc[Reaper] = "idle") =>
              stale' = { f \in DOMAIN files :
                           /\ files[f].status = "INITIATED"
                           /\ now - files[f].updated_at > STALE_AFTER_HOURS }
         /\ (pc[Reaper] # "idle") => stale' \subseteq stale
         /\ (pc'[Reaper] = "abort_finish") =>
              loc'[Reaper].file_id \in stale \ stale'
         /\ parts' = parts
         /\ \A f \in DOMAIN files :
              (pc[Reaper] = "abort_finish" /\ loc[Reaper].file_id = f)
              \/ /\ files'[f] = files[f]
                 /\ uploads'[f] = uploads[f]
                 /\ ~(gwCall'.op # "" /\ gwCall'.key = files[f].storage_key)]_vars

\* C21 witness: the reaper has aborted a stale File while another File,
\* INITIATED within the last 12 hours, is in the store.
C21_Witness ==
    /\ resp.op = "abort" /\ resp.proc = Reaper /\ resp.kind = "ok"
    /\ \E f \in DOMAIN files :
         /\ files[f].status = "INITIATED"
         /\ now - files[f].updated_at <= STALE_AFTER_HOURS

\* C22: in a reaper cycle, an abort that fails (at its check or at its
\* gateway call) leaves the reaper in its loop with the Files still to
\* visit untouched; a File leaves the list only by being attempted; the
\* cycle ends only when the list is empty; and an abort of the cycle that
\* succeeds ends with the File FAILED and the Upload ABORTED.
C22_SweepGoesOnAfterFailure ==
    [][/\ (resp = NoResp /\ resp'.proc = Reaper /\ resp'.kind = "err") =>
            /\ pc'[Reaper] = "reap"
            /\ stale' \subseteq stale
            /\ stale \ stale' \subseteq {resp'.file_id}
       /\ (pc[Reaper] # "idle" /\ pc'[Reaper] = "idle") =>
            stale = {} /\ stale' = {}
       /\ pc[Reaper] # "idle" =>
            \A f \in stale \ stale' :
               \/ resp'.proc = Reaper /\ resp'.op = "abort" /\ resp'.file_id = f
               \/ pc'[Reaper] = "abort_finish" /\ loc'[Reaper].file_id = f
       /\ (Ends(Reaper, "abort_finish") /\ resp'.kind = "ok") =>
            /\ files'[loc[Reaper].file_id].status = "FAILED"
            /\ uploads'[loc[Reaper].file_id].status = "ABORTED"]_vars

\* C22 witness: in one cycle the abort of one stale File has failed, the
\* File is as it was, and the abort of another stale File has succeeded.
C22_Witness ==
    /\ pc[Reaper] = "reap"
    /\ resp.proc = Reaper /\ resp.op = "abort" /\ resp.kind = "ok"
    /\ files[resp.file_id].status = "FAILED"
    /\ \E g \in StaleFiles : g # resp.file_id /\ g \notin stale

\* C23, as stated: with the reaper scheduled fairly, a File that is
\* INITIATED and has not been updated for more than 12 hours is in the end
\* FAILED with its Upload ABORTED (or a client has completed it).
C23_StaleFileEventuallyFailed ==
    \A f \in FileIds :
       (f \in StaleFiles) ~>
          /\ f \in DOMAIN files
          /\ \/ files[f].status = "FAILED" /\ uploads[f].status = "ABORTED"
             \/ files[f].status = "COMPLETED"

\* C24, as stated: with requests served one after the other, once an abort
\* has succeeded or the gateway call of a complete has failed, no
\* INPROGRESS Upload carries the File's fingerprint, so that the next
\* initiate with it finds nothing to resume; an initiate resumes only an
\* INPROGRESS Upload, and one that creates returns a File id no File had,
\* with an INPROGRESS Upload and no acknowledged part.
C24_FingerprintFreeAfterAbortOrFailure ==
    [][/\ (\/ Ends(1, "abort_finish") /\ resp'.kind = "ok"
           \/ Ends(1, "complete_finish") /\ ~gwCall'.ok) =>
            InProgressWith(uploads',
                           uploads[loc[1].file_id].file_fingerprint) = {}
       /\ ResumeStep =>
            uploads[resp'.file_id].status = "INPROGRESS"
       /\ (Answers("initiate") /\ resp'.path = "create" /\ resp'.kind = "ok") =>
            /\ resp'.file_id \notin DOMAIN files
            /\ files'[resp'.file_id].status = "INITIATED"
            /\ uploads'[resp'.file_id].status = "INPROGRESS"
            /\ resp'.uploaded_parts = {}
            /\ { r \in parts' : r.upload_id = resp'.file_id } = {}]_vars

\* C25: every Upload row has chunk size 5242880 and a part count that is
\* the ceiling of its File's declared size over 5242880: the parts cover
\* the size and one part fewer would not; a declared size of 104857600
\* gives 20 parts, and a size that is no multiple of the chunk size gives
\* one part more than the whole chunks in it.
C25_TotalPartsIsCeiling ==
    \A u \in DOMAIN uploads :
       LET size == files[uploads[u].file_id].size
           n    == uploads[u].total_parts IN
       /\ uploads[u].chunk_size = 5242880
       /\ n * 5242880 >= size
       /\ (n - 1) * 5242880 < size
       /\ size = 104857600 => n = 20
       /\ size % 5242880 # 0 => n = (size \div 5242880) + 1

\* C25 witness: an Upload created for a declared size of 104857600, with
\* 20 parts.
C25_Witness ==
    \E u \in DOMAIN uploads :
       /\ files[uploads[u].file_id].size = 104857600
       /\ uploads[u].total_parts = 20

\* C26: a presignPart call, whatever it answers, changes no File, Upload
\* or part row; on an INITIATED File of the caller and a part number within
\* 1..totalParts it calls the gateway and succeeds exactly when the
\* gateway does, whether or not the part was presigned or acknowledged
\* before.
C26_PresignChangesNothing ==
    [][Answers("presign") =>
         /\ UNCHANGED <<files, uploads, parts, sessions>>
         /\ LET f == resp'.file_id IN
            (/\ f \in DOMAIN files
             /\ files[f].user_id = resp'.user_id
             /\ files[f].status = "INITIATED"
             /\ resp'.part_number \in 1..uploads[f].total_parts) =>
               /\ gwCall'.op = "presign"
               /\ gwCall'.part_number = resp'.part_number
               /\ (resp'.kind = "ok") = gwCall'.ok]_vars

\* C26 witness: a presign has succeeded for a part that is acknowledged
\* already, so at least the second URL handed out for it.
C26_Witness ==
    /\ resp.op = "presign" /\ resp.kind = "ok"
    /\ \E r \in parts :
         r.upload_id = resp.file_id /\ r.part_number = resp.part_number

\* C27, as stated: a status call changes no row and fails only with
\* NotFound; for a File the caller owns, whatever its status, it returns
\* the session id, the total parts, the acknowledged part numbers and the
\* File's status.
C27_StatusReportsProgress ==
    [][Answers("status") =>
         /\ UNCHANGED <<files, uploads, parts, sessions>>
         /\ resp'.kind = "err" => resp'.err = "NotFound"
         /\ LET f == resp'.file_id IN
            (f \in DOMAIN files /\ files[f].user_id = resp'.user_id) =>
               /\ resp'.kind = "ok"
               /\ resp'.upload_id = uploads[f].upload_id
               /\ resp'.total_parts = uploads[f].total_parts
               /\ resp'.uploaded_parts = { r.part_number : r \in PartsOf(f) }
               /\ resp'.body = files[f].status]_vars

\* The storage key of a File: owner, folder part and unique part.
KeyOf(fs, f) == <<fs[f].user_id, fs[f].storage_key_folder, fs[f].storage_key>>

\* C28: a File gets its storage key in the step of initiate that creates
\* it, the key under which that step opened the multipart session; no
\* later step of any handler or of the reaper changes it; and no two Files
\* hold the same key, Files of one owner in one folder included.
C28_StorageKeyFixedAndUnique ==
    [][/\ \A f \in DOMAIN files : KeyOf(files', f) = KeyOf(files, f)
       /\ Len(files') > Len(files) =>
            /\ Ends(1, "init_create")
            /\ Len(files') = Len(files) + 1
            /\ gwCall'.op = "create"
            /\ gwCall'.key = files'[Len(files')].storage_key
       /\ \A f, g \in DOMAIN files' :
            f # g => KeyOf(files', f) # KeyOf(files', g)]_vars

\* C28 witness: two Files of one owner in one folder, one of them taken
\* through complete and the other just aborted by the reaper.
C28_Witness ==
    /\ resp.op = "abort" /\ resp.proc = Reaper /\ resp.kind = "ok"
    /\ \E f, g \in DOMAIN files :
         /\ f # g
         /\ files[f].user_id = files[g].user_id
         /\ files[f].folder_id = files[g].folder_id
         /\ files[f].status = "COMPLETED"
         /\ files[g].status = "FAILED"

\* C29, as stated: the reaper aborts no File whose Upload had a part
\* acknowledged less than 12 hours ago, whenever the File was created.
C29_ReaperSparesActiveUploads ==
    [][(Ends(Reaper, "abort_finish") /\ resp'.kind = "ok") =>
         \A r \in PartsOf(loc[Reaper].file_id) :
            now - r.uploaded_at >= STALE_AFTER_HOURS]_vars

\* C30: with requests served one after the other, a complete on an
\* INITIATED File of the caller is never refused for its list: whatever
\* part rows are stored, the gateway's complete call carries exactly the
\* entries the caller gave, no part row is read into it or changed, and
\* the answer is success exactly when the gateway call succeeds; a
\* complete is refused before the gateway only for a File that is not the
\* caller's or not INITIATED.
C30_CompleteUsesCallersList ==
    [][/\ Ends(1, "complete_finish") =>
            /\ gwCall'.op = "complete"
            /\ SameEntries(gwCall'.given, gwCall'.parts)
            /\ parts' = parts
            /\ (resp'.kind = "ok") = gwCall'.ok
       /\ (Answers("complete") /\ gwCall' = NoCall) =>
            LET f == resp'.file_id IN
            /\ resp'.kind = "err"
            /\ \/ f \notin DOMAIN files
               \/ files[f].user_id # resp'.user_id
               \/ files[f].status # "INITIATED"]_vars

\* C30 witness: a complete has succeeded on a File with no acknowledged
\* part, with a list that is not empty and shorter than totalParts.
C30_Witness ==
    /\ resp.op = "complete" /\ resp.kind = "ok" /\ gwCall.ok
    /\ PartsOf(resp.file_id) = {}
    /\ gwCall.given # <<>>
    /\ Len(gwCall.given) < uploads[resp.file_id].total_parts

\* The Upload rows that carry a multipart session id.
UploadsOfSession(sid) == { u \in DOMAIN uploads : uploads[u].upload_id = sid }

\* C31, as stated: a complete whose gateway call fails makes no abort call
\* and leaves the session at the storage as it was, with the Upload marked
\* ABORTED; and a session that is open while its Upload is ABORTED stays
\* open through every later step of a handler or of the reaper.
C31_FailedCompleteLeavesSessionOpen ==
    [][/\ (Ends(1, "complete_finish") /\ ~gwCall'.ok) =>
            /\ gwCall'.op = "complete"
            /\ sessions' = sessions
            /\ uploads'[loc[1].file_id].status = "ABORTED"
       /\ \A sid \in DOMAIN sessions :
            (/\ sessions[sid].state = "open"
             /\ \E u \in UploadsOfSession(sid) : uploads[u].status = "ABORTED") =>
               sessions'[sid].state = "open"]_vars

\* C32: with requests served one after the other, no step changes or
\* removes an UploadPart row; an acknowledgePart for a part number that
\* has a row leaves the rows as they are, whatever etag it carries; and a
\* resume returns, for each part number, the etag of its row, which is the
\* one of the first acknowledgement.
C32_PartRowNeverUpdated ==
    [][/\ parts \subseteq parts'
       /\ \A r1, r2 \in parts' :
            (r1.upload_id = r2.upload_id /\ r1.part_number = r2.part_number)
              => r1 = r2
       /\ (AckEnds(1) /\ RowsOfKey(parts, loc[1].file_id,
                                   loc[1].part_number) # {}) =>
            parts' = parts
       /\ ResumeStep =>
            resp'.uploaded_parts =
              { <<r.part_number, r.etag>> : r \in PartsOf(resp'.file_id) }]_vars

\* C32 witness: a part number was acknowledged again with another etag
\* than the stored one, and the row still has the stored one.
C32_Witness ==
    /\ resp.op = "ack" /\ resp.kind = "ok" /\ resp.row_seen
    /\ \E r \in RowsOfKey(parts, resp.file_id, resp.part_number) :
         r.etag # resp.etag

C34_TerminalAbsorbing ==
    [][\A f \in DOMAIN files :
         Terminal(f) =>
           /\ files'[f].status = files[f].status
           /\ uploads'[f].status = uploads[f].status]_vars

\* C35, as stated: under every interleaving of the handlers, no step adds
\* a part row to an Upload that is COMPLETED or ABORTED.
C35_NoPartAfterTerminal ==
    [][\A u \in DOMAIN uploads :
         uploads[u].status \in {"COMPLETED", "ABORTED"} =>
           { r \in parts' : r.upload_id = u } = PartsOf(u)]_vars

\* C36, as stated: an initiate answers through its resume path only with
\* an Upload whose File belongs to the caller.
C36_ResumeOnlyOwnUpload ==
    [][ResumeStep => files[resp'.file_id].user_id = resp'.user_id]_vars

\* C37, as stated: in every reachable state, also after a File has been
\* deleted, an Upload with status INPROGRESS belongs to a File with status
\* INITIATED.
C37_InProgressUploadHasInitiatedFile ==
    \A u \in DOMAIN uploads :
        uploads[u].status = "INPROGRESS"
          => files[uploads[u].file_id].status = "INITIATED"

\* C38, as stated: every Upload that initiate has created has at least one
\* part, so presignPart accepts at least one part number for it.
C38_CreatedUploadHasAPart ==
    \A u \in DOMAIN uploads : uploads[u].total_parts >= 1

====
